---- MODULE Spec2Model ----
(***************************************************************************)
(* Bundle adjustment sample (bundle_adjustment.cpp): the BAProblem store,  *)
(* the PinholeReprojectionError residual functor and main(), which fills   *)
(* the store, registers one residual block per observation and hands the   *)
(* problem to the solver.                                                  *)
(*                                                                         *)
(* Numbers.  A double is modelled as an exact rational <<n, d>> in lowest  *)
(* terms with d > 0, plus the three IEEE specials that a division by zero  *)
(* produces: <<1, 0>> (+Inf), <<-1, 0>> (-Inf) and <<0, 0>> (NaN).         *)
(* Rounding, overflow and the sign of zero are abstracted away.            *)
(*                                                                         *)
(* Rotations.  The three angle-axis scalars of a camera block are kept in  *)
(* units of a quarter turn (the scalar q stands for q * pi/2 radians) and  *)
(* the model only draws axis-aligned angle-axis vectors, so that every     *)
(* rotation is exact over the rationals.                                   *)
(***************************************************************************)
EXTENDS Integers, Sequences, FiniteSets, TLC

(* ------------------------------ doubles -------------------------------- *)

Abs(x) == IF x < 0 THEN -x ELSE x

Sgn(x) == IF x < 0 THEN -1 ELSE IF x > 0 THEN 1 ELSE 0

RECURSIVE Gcd(_, _)
Gcd(a, b) == IF b = 0 THEN a ELSE Gcd(b, a % b)

Norm(n, d) ==
    IF d = 0 THEN <<Sgn(n), 0>>
    ELSE LET g == Gcd(Abs(n), Abs(d))
             s == IF d < 0 THEN -1 ELSE 1
         IN  <<(s * n) \div g, (s * d) \div g>>

F(n) == <<n, 1>>

NaN == <<0, 0>>

IsNaN(a) == a = NaN

IsInf(a) == a[2] = 0 /\ a[1] # 0

IsFinite(a) == a[2] > 0

FNeg(a) == <<-a[1], a[2]>>

FAdd(a, b) ==
    IF IsNaN(a) \/ IsNaN(b) THEN NaN
    ELSE IF IsInf(a) /\ IsInf(b) THEN (IF a = b THEN a ELSE NaN)
    ELSE IF IsInf(a) THEN a
    ELSE IF IsInf(b) THEN b
    ELSE Norm(a[1] * b[2] + b[1] * a[2], a[2] * b[2])

FSub(a, b) == FAdd(a, FNeg(b))

FMul(a, b) == Norm(a[1] * b[1], a[2] * b[2])

FDiv(a, b) ==
    LET s == IF b[1] < 0 THEN -1 ELSE 1
    IN  Norm(s * a[1] * b[2], s * a[2] * b[1])

(* ----------------------------- std::vector ----------------------------- *)
(* A vector is its elements, its capacity and the identity of its heap     *)
(* allocation: base changes exactly when the buffer is reallocated, which  *)
(* invalidates every pointer into the old buffer.                          *)

EmptyVec == [data |-> <<>>, cap |-> 0, base |-> 0]

reserve(v, n) ==
    IF n > v.cap THEN [v EXCEPT !.cap = n, !.base = @ + 1] ELSE v

push_back(v, x) ==
    IF Len(v.data) < v.cap
    THEN [v EXCEPT !.data = Append(@, x)]
    ELSE [data |-> Append(v.data, x),
          cap  |-> IF v.cap = 0 THEN 1 ELSE 2 * v.cap,
          base |-> v.base + 1]

RECURSIVE push_all(_, _)
push_all(v, xs) ==
    IF xs = <<>> THEN v ELSE push_all(push_back(v, Head(xs)), Tail(xs))

(* ------------------------- ceres/rotation.h ---------------------------- *)
(* Angle-axis scalars are in quarter turns; the trigonometry of a multiple *)
(* of pi/2 is exact.                                                       *)

CosQ(n) == LET m == n % 4 IN IF m = 0 THEN 1 ELSE IF m = 2 THEN -1 ELSE 0

SinQ(n) == LET m == n % 4 IN IF m = 1 THEN 1 ELSE IF m = 3 THEN -1 ELSE 0

Dot(a, b) == FAdd(FAdd(FMul(a[1], b[1]), FMul(a[2], b[2])), FMul(a[3], b[3]))

Cross(a, b) ==
    << FSub(FMul(a[2], b[3]), FMul(a[3], b[2])),
       FSub(FMul(a[3], b[1]), FMul(a[1], b[3])),
       FSub(FMul(a[1], b[2]), FMul(a[2], b[1])) >>

\* The angle-axis vectors whose rotation the model can compute exactly.
Representable(aa) ==
    /\ \A n \in 1..3 : aa[n][2] = 1
    /\ Cardinality({n \in 1..3 : aa[n][1] # 0}) <= 1

\* Rodrigues' formula; the zero vector takes the first-order branch
\* pt + angle_axis x pt.
AngleAxisRotatePoint(angle_axis, pt) ==
    LET theta2 == Dot(angle_axis, angle_axis)
    IN  IF theta2 # F(0)
        THEN LET theta    == Abs(angle_axis[1][1] + angle_axis[2][1] + angle_axis[3][1])
                 costheta == F(CosQ(theta))
                 sintheta == F(SinQ(theta))
                 w        == [n \in 1..3 |-> FDiv(angle_axis[n], F(theta))]
                 w_cross_pt == Cross(w, pt)
                 tmp      == FMul(Dot(w, pt), FSub(F(1), costheta))
             IN  [n \in 1..3 |->
                    FAdd(FAdd(FMul(pt[n], costheta), FMul(w_cross_pt[n], sintheta)),
                         FMul(w[n], tmp))]
        ELSE LET w_cross_pt == Cross(angle_axis, pt)
             IN  [n \in 1..3 |-> FAdd(pt[n], w_cross_pt[n])]

Vec3(a, b, c) == <<F(a), F(b), F(c)>>

\* The canonical angle-axis vectors: the identity, and a quarter turn either
\* way or a half turn about each principal axis.
CanonicalAngleAxis ==
    {Vec3(0, 0, 0)} \cup
    UNION {{Vec3(q, 0, 0), Vec3(0, q, 0), Vec3(0, 0, q)} : q \in {-1, 1, 2}}

\* A rotation matrix is its three columns (column-major, as Eigen stores it):
\* R[c][r] is the entry of row r and column c.
RotationMatrix(aa) ==
    << AngleAxisRotatePoint(aa, Vec3(1, 0, 0)),
       AngleAxisRotatePoint(aa, Vec3(0, 1, 0)),
       AngleAxisRotatePoint(aa, Vec3(0, 0, 1)) >>

\* The angle from the trace (cos = (trace - 1) / 2), the axis from the
\* skew-symmetric part (2 sin times the axis) and, for a half turn, where the
\* skew part vanishes, from the diagonal.
RotationMatrixToAngleAxis(R) ==
    LET trace == R[1][1][1] + R[2][2][1] + R[3][3][1]
        skew  == << R[2][3][1] - R[3][2][1],
                    R[3][1][1] - R[1][3][1],
                    R[1][2][1] - R[2][1][1] >>
    IN  IF trace = 3 THEN Vec3(0, 0, 0)
        ELSE IF trace = 1 THEN Vec3(skew[1] \div 2, skew[2] \div 2, skew[3] \div 2)
        ELSE Vec3(R[1][1][1] + 1, R[2][2][1] + 1, R[3][3][1] + 1)

(* ------------------------------- bounds -------------------------------- *)

MaxFocal == 2       \* focal lengths of the data sets are 1..MaxFocal

MaxDepth == 2       \* third coordinate of a drawn 3D point is -MaxDepth..MaxDepth

MaxCams == 2        \* cameras of a drawn small problem

MaxPts == 2         \* points of a drawn small problem

MaxIter == 1        \* parameter updates the solver performs before it returns

NumThreads == 2     \* evaluations in flight at once in the concurrent solver

(* ------------------------- program constants --------------------------- *)

NVIEWS == 3

NPOINTS == 6

ppx == 500

ppy == 500

kNumResiduals == 2

kCameraSize == 7

kPointSize == 3

(* ------------------------------- state --------------------------------- *)

VARIABLES
    pc,         \* where main() is
    nviews,     \* main's local nviews
    npoints,    \* main's local npoints
    i,          \* outer / only loop counter of the loop main is in
    j,          \* inner loop counter of the fill loop, camera loop counter
    d,          \* the NViewDataSet
    ba,         \* ba_problem, the BAProblem
    problem,    \* the ceres::Problem: its residual blocks, in order
    sv,         \* the solver's state while ceres::Solve runs
    out         \* number of output statements executed on std::cout

vars == <<pc, nviews, npoints, i, j, d, ba, problem, sv, out>>

\* Not written yet: a scratch or output slot, what a call has read, the last
\* solver write.
NoValue == <<>>

NoRead == [camera |-> <<>>, point |-> <<>>]

NoWrite == [which |-> "none", idx |-> 0, s |-> 0, v |-> NaN]

(* ------------------------------ data sets ------------------------------ *)
(* NViewDataSet: per view a rotation _R, a translation _t, a calibration   *)
(* _K and the 2 x npoints image points _x; the 3D points _X.  Sequences    *)
(* are 1-based: view j of the program is element j + 1.                    *)

RingAngleAxis == <<Vec3(0, 0, 0), Vec3(0, 0, 1), Vec3(0, 2, 0), Vec3(-1, 0, 0)>>

\* A ring-like family of data sets: r turns the ring, f is the focal length.
NRealisticCamerasRing(nv, np, r, f) ==
    [ R |-> [c \in 1..nv |-> RotationMatrix(RingAngleAxis[((r + c - 1) % 4) + 1])],
      t |-> [c \in 1..nv |-> Vec3(c - 1, -1, 3 + c)],
      K |-> [c \in 1..nv |-> F(f)],
      X |-> [q \in 1..np |-> Vec3(q - 3, 1 - ((q - 1) % 3), (q - 1) % 2)],
      x |-> [c \in 1..nv |-> [q \in 1..np |->
                 <<F(ppx + 7 * (c - 1) + (q - 1) + r), F(ppy + 3 * (q - 1) - (c - 1))>>]] ]

RingDataSets(nv, np) ==
    {NRealisticCamerasRing(nv, np, r, f) : r \in 0..1, f \in 1..MaxFocal}

(* ------------------------------ BAProblem ------------------------------ *)
(* A double* is a pointer: the allocation it points into and the offset,   *)
(* in scalars, from the start of that allocation.                          *)

EmptyBAProblem ==
    [ num_cameras_ |-> 0, num_points_ |-> 0,
      num_observations_ |-> 0, num_parameters_ |-> 0,
      point_index_ |-> EmptyVec, camera_index_ |-> EmptyVec,
      observations_ |-> EmptyVec, parameters_ |-> EmptyVec ]

num_observations(b) == b.num_observations_

\* observations()[n]
observations(b, n) == b.observations_.data[n + 1]

mutable_cameras(b) == [base |-> b.parameters_.base, off |-> 0]

\* The points taken to start after 7 scalars per point instead of per camera.
mutable_points_by_point_count(b) ==
    [base |-> b.parameters_.base, off |-> 0 + 7 * b.num_points_]

mutable_points(b) ==
    [base |-> b.parameters_.base, off |-> 0 + 7 * b.num_cameras_]

\* The camera index used as a scalar offset, not scaled by the block size.
mutable_camera_for_observation_unscaled(b, n) ==
    [mutable_cameras(b) EXCEPT !.off = @ + b.camera_index_.data[n + 1]]

mutable_camera_for_observation(b, n) ==
    [mutable_cameras(b) EXCEPT !.off = @ + b.camera_index_.data[n + 1] * 7]

mutable_point_for_observation(b, n) ==
    [mutable_points(b) EXCEPT !.off = @ + b.point_index_.data[n + 1] * 3]

(* -------------------------------- main --------------------------------- *)
(* One action per loop iteration; the loop test is evaluated at the end of *)
(* the iteration (every loop bound of the program is at least one).        *)

\* The residual blocks registered before the points are appended.
MainOrder_blocks_before_points ==
    <<"start", "fill", "cameras", "blocks", "points", "solve">>

\* The order of main's phases.
MainOrder == <<"start", "fill", "cameras", "points", "blocks", "solve">>

NextPc(p) ==
    LET n == CHOOSE m \in 1..Len(MainOrder) : MainOrder[m] = p
    IN  MainOrder[n + 1]

\* Lines 117-126: the sizes, and the reservations.
Configure ==
    /\ pc = "start"
    /\ LET nobs == nviews * npoints
           npar == 7 * nviews + 3 * npoints
       IN  ba' = [ ba EXCEPT
                     !.num_cameras_ = nviews,
                     !.num_points_ = npoints,
                     !.num_observations_ = nobs,
                     !.point_index_ = reserve(@, nobs),
                     !.camera_index_ = reserve(@, nobs),
                     !.observations_ = reserve(@, 2 * nobs),
                     !.num_parameters_ = npar,
                     !.parameters_ = reserve(@, npar) ]
    /\ pc' = NextPc(pc)
    /\ i' = 0
    /\ j' = 0
    /\ UNCHANGED <<nviews, npoints, d, problem, sv, out>>

\* Lines 133-137: one observation, its pixel centred on the principal point.
PushObservation(b, cj, ci, pt) ==
    [ b EXCEPT
        !.camera_index_ = push_back(@, cj),
        !.point_index_ = push_back(@, ci),
        !.observations_ = push_all(@, <<FSub(pt[1], F(ppx)), FSub(pt[2], F(ppy))>>) ]

\* Lines 130-139: the image of point i in frame j.
FillStep ==
    /\ pc = "fill"
    /\ i < npoints
    /\ j < nviews
    /\ ba' = PushObservation(ba, j, i, d.x[j + 1][i + 1])
    /\ j' = IF j + 1 < nviews THEN j + 1 ELSE 0
    /\ i' = IF j + 1 < nviews THEN i
            ELSE IF i + 1 < npoints THEN i + 1 ELSE 0
    /\ pc' = IF j + 1 < nviews \/ i + 1 < npoints THEN pc ELSE NextPc(pc)
    /\ UNCHANGED <<nviews, npoints, d, problem, sv, out>>

\* The fill loop of a caller that takes each observation's camera and point
\* index from its own track list instead of from the loop counters.
CallerFillStep ==
    /\ pc = "fill"
    /\ i < npoints
    /\ j < nviews
    /\ \E cj \in -1..nviews, ci \in -1..npoints :
          ba' = PushObservation(ba, cj, ci, d.x[j + 1][i + 1])
    /\ j' = IF j + 1 < nviews THEN j + 1 ELSE 0
    /\ i' = IF j + 1 < nviews THEN i
            ELSE IF i + 1 < npoints THEN i + 1 ELSE 0
    /\ pc' = IF j + 1 < nviews \/ i + 1 < npoints THEN pc ELSE NextPc(pc)
    /\ UNCHANGED <<nviews, npoints, d, problem, sv, out>>

\* Lines 142-156: the seven scalars of camera j.
CameraStep ==
    /\ pc = "cameras"
    /\ j < nviews
    /\ LET angleAxis == RotationMatrixToAngleAxis(d.R[j + 1])
           t         == d.t[j + 1]
           focal     == d.K[j + 1]
       IN  ba' = [ ba EXCEPT !.parameters_ =
                     push_all(@, <<angleAxis[1], angleAxis[2], angleAxis[3],
                                   t[1], t[2], t[3], focal>>) ]
    /\ j' = IF j + 1 < nviews THEN j + 1 ELSE 0
    /\ pc' = IF j + 1 < nviews THEN pc ELSE NextPc(pc)
    /\ UNCHANGED <<nviews, npoints, i, d, problem, sv, out>>

\* Lines 158-164: the three scalars of point i.
PointStep ==
    /\ pc = "points"
    /\ i < npoints
    /\ LET pt3D == d.X[i + 1]
       IN  ba' = [ ba EXCEPT !.parameters_ =
                     push_all(@, <<pt3D[1], pt3D[2], pt3D[3]>>) ]
    /\ i' = IF i + 1 < npoints THEN i + 1 ELSE 0
    /\ pc' = IF i + 1 < npoints THEN pc ELSE NextPc(pc)
    /\ UNCHANGED <<nviews, npoints, j, d, problem, sv, out>>

\* Lines 55-56: the functor keeps the observed location.
PinholeReprojectionError(observed_x, observed_y) ==
    [observed_x |-> observed_x, observed_y |-> observed_y]

\* The observation read at n and n + 1 instead of 2n and 2n + 1.
ResidualBlock_unscaled_index(b, n) ==
    [ cost   |-> PinholeReprojectionError(observations(b, n + 0),
                                          observations(b, n + 1)),
      camera |-> mutable_camera_for_observation(b, n),
      point  |-> mutable_point_for_observation(b, n) ]

\* Lines 173-182: the residual block of observation n.
ResidualBlock(b, n) ==
    [ cost   |-> PinholeReprojectionError(observations(b, 2 * n + 0),
                                          observations(b, 2 * n + 1)),
      camera |-> mutable_camera_for_observation(b, n),
      point  |-> mutable_point_for_observation(b, n) ]

\* Lines 169-183.
BlockStep ==
    /\ pc = "blocks"
    /\ i < num_observations(ba)
    /\ problem' = Append(problem, ResidualBlock(ba, i))
    /\ i' = IF i + 1 < num_observations(ba) THEN i + 1 ELSE 0
    /\ pc' = IF i + 1 < num_observations(ba) THEN pc ELSE NextPc(pc)
    /\ UNCHANGED <<nviews, npoints, j, d, ba, sv, out>>

(* ---------------- PinholeReprojectionError::operator() ------------------ *)
(* camera is the 7 scalars and point the 3 scalars the two pointers        *)
(* designate; T is taken as double (the derivative part of a Jet follows   *)
(* the same straight-line code).                                           *)

\* Lines 72-78: the local p, the point rotated then translated.
operator_p(camera, point) ==
    LET p == AngleAxisRotatePoint(<<camera[1], camera[2], camera[3]>>, point)
    IN  << FAdd(p[1], camera[4]), FAdd(p[2], camera[5]), FAdd(p[3], camera[6]) >>

\* The error taken as observed minus predicted.
operator_residuals_observed_minus_predicted(f, camera, p) ==
    LET xp == FDiv(p[1], p[3])
        yp == FDiv(p[2], p[3])
        focal == camera[7]
        predicted_x == FMul(focal, xp)
        predicted_y == FMul(focal, yp)
    IN  << FSub(f.observed_x, predicted_x), FSub(f.observed_y, predicted_y) >>

\* yp computed from p[0], as xp is.
operator_residuals_yp_from_p0(f, camera, p) ==
    LET xp == FDiv(p[1], p[3])
        yp == FDiv(p[1], p[3])
        focal == camera[7]
        predicted_x == FMul(focal, xp)
        predicted_y == FMul(focal, yp)
    IN  << FSub(predicted_x, f.observed_x), FSub(predicted_y, f.observed_y) >>

\* Lines 81-96: the two residuals, from p.
operator_residuals(f, camera, p) ==
    LET xp == FDiv(p[1], p[3])
        yp == FDiv(p[2], p[3])
        focal == camera[7]
        predicted_x == FMul(focal, xp)
        predicted_y == FMul(focal, yp)
    IN  << FSub(predicted_x, f.observed_x), FSub(predicted_y, f.observed_y) >>

\* Failure reported for a point that is not in front of the camera.
operator_return_positive_depth(f, camera, p) == p[3][1] > 0

\* Line 98.
operator_return(f, camera, p) == TRUE

\* p made a static array: one slot shared by every call.
Scratch_static(k) == 1

\* Line 72: p is an automatic array, one per call in flight.
Scratch(k) == k

(* ------------------------------- solver -------------------------------- *)
(* ceres::Solve, as the contract the driver relies on: rounds in which     *)
(* every residual block is evaluated on its two parameter blocks, read     *)
(* through the registered pointers, and between rounds writes through the  *)
(* same pointers.  With one thread the blocks are evaluated in order.      *)

\* What a read through a dangling or out-of-bounds pointer may yield.
Garbage == {NaN, F(0)}

\* What the solver writes into a scalar.
WriteVals == {F(-1), F(3)}

ValidAt(b, h, n) ==
    /\ h.base = b.parameters_.base
    /\ h.off + n >= 0
    /\ h.off + n < Len(b.parameters_.data)

ReadBlock(b, h, size, g) ==
    [n \in 1..size |->
        IF ValidAt(b, h, n - 1) THEN b.parameters_.data[h.off + n] ELSE g]

NoSolver(threads) ==
    [ threads |-> threads, iter |-> 0, st |-> <<>>, p |-> <<>>, rd |-> <<>>,
      res |-> <<>>, ret |-> <<>>, last |-> NoWrite ]

NewRound(s, n) ==
    [ s EXCEPT !.st  = [k \in 1..n |-> "idle"],
               !.p   = [k \in 1..n |-> NoValue],
               !.rd  = [k \in 1..n |-> NoRead],
               !.res = [k \in 1..n |-> NoValue],
               !.ret = [k \in 1..n |-> FALSE] ]

\* Line 204: ceres::Solve is entered.
SolveCall ==
    /\ pc = "solve"
    /\ pc' = "solving"
    /\ sv' = NewRound(sv, Len(problem))
    /\ UNCHANGED <<nviews, npoints, i, j, d, ba, problem, out>>

\* The call of block k's functor, lines 59-78.
EvalBegin(k) ==
    /\ pc = "solving"
    /\ sv.st[k] = "idle"
    /\ Cardinality({m \in 1..Len(problem) : sv.st[m] = "p"}) < sv.threads
    /\ sv.threads = 1 => \A m \in 1..(k - 1) : sv.st[m] = "done"
    /\ \E g \in Garbage :
          \E camera \in {ReadBlock(ba, problem[k].camera, kCameraSize, g)},
             point  \in {ReadBlock(ba, problem[k].point, kPointSize, g)} :
             \E p \in {operator_p(camera, point)} :
                sv' = [ sv EXCEPT !.st[k] = "p",
                                  !.p[Scratch(k)] = p,
                                  !.rd[k] = [camera |-> camera, point |-> point] ]
    /\ out' = out + 1
    /\ UNCHANGED <<pc, nviews, npoints, i, j, d, ba, problem>>

\* The rest of the call, lines 81-98.
EvalEnd(k) ==
    /\ pc = "solving"
    /\ sv.st[k] = "p"
    /\ \E g \in Garbage :
          \E camera \in {ReadBlock(ba, problem[k].camera, kCameraSize, g)},
             p      \in {sv.p[Scratch(k)]} :
             \E residuals \in {operator_residuals(problem[k].cost, camera, p)},
                ret       \in {operator_return(problem[k].cost, camera, p)} :
                sv' = [ sv EXCEPT !.st[k] = "done",
                                  !.res[k] = residuals,
                                  !.ret[k] = ret ]
    /\ out' = out + 2
    /\ UNCHANGED <<pc, nviews, npoints, i, j, d, ba, problem>>

RoundDone == \A k \in 1..Len(problem) : sv.st[k] = "done"

\* Between two rounds the solver writes a scalar through a registered pointer.
SolverUpdate ==
    /\ pc = "solving"
    /\ RoundDone
    /\ sv.iter < MaxIter
    /\ \E k \in 1..Len(problem), which \in {"camera", "point"}, v \in WriteVals :
          LET h    == problem[k][which]
              size == IF which = "camera" THEN kCameraSize ELSE kPointSize
              idx  == IF which = "camera" THEN ba.camera_index_.data[k]
                                          ELSE ba.point_index_.data[k]
          IN  \E s \in 0..(size - 1) :
                 /\ ValidAt(ba, h, s)
                 /\ ba' = [ba EXCEPT !.parameters_.data[h.off + s + 1] = v]
                 /\ \A kk \in 1..Len(problem) :
                       LET c == ReadBlock(ba', problem[kk].camera, kCameraSize, NaN)
                       IN  Representable(<<c[1], c[2], c[3]>>)
                 /\ sv' = [ NewRound(sv, Len(problem)) EXCEPT
                              !.iter = @ + 1,
                              !.last = [which |-> which, idx |-> idx, s |-> s, v |-> v] ]
    /\ UNCHANGED <<pc, nviews, npoints, i, j, d, problem, out>>

\* Lines 204-207: the solve returns and the report is printed.
SolveReturn ==
    /\ pc = "solving"
    /\ RoundDone
    /\ pc' = "done"
    /\ out' = out + 1
    /\ UNCHANGED <<nviews, npoints, i, j, d, ba, problem, sv>>

(* --------------------------- specifications ---------------------------- *)

InitWith(nv, np, ds, threads) ==
    /\ pc = "start"
    /\ nviews = nv
    /\ npoints = np
    /\ i = 0
    /\ j = 0
    /\ d = ds
    /\ ba = EmptyBAProblem
    /\ problem = <<>>
    /\ sv = NoSolver(threads)
    /\ out = 0

\* main as written: 3 views, 6 points, a single-threaded solver.
Init ==
    \E r \in 0..1 :
        InitWith(NVIEWS, NPOINTS, NRealisticCamerasRing(NVIEWS, NPOINTS, r, 1 + r), 1)

Next ==
    \/ Configure
    \/ FillStep
    \/ CameraStep
    \/ PointStep
    \/ BlockStep
    \/ SolveCall
    \/ \E k \in 1..Len(problem) : EvalBegin(k)
    \/ \E k \in 1..Len(problem) : EvalEnd(k)
    \/ SolverUpdate
    \/ SolveReturn

Spec == Init /\ [][Next]_vars

\* A round of the solver on a fixed parameter snapshot: no update.
NextRound ==
    \/ Configure
    \/ FillStep
    \/ CameraStep
    \/ PointStep
    \/ BlockStep
    \/ SolveCall
    \/ \E k \in 1..Len(problem) : EvalBegin(k)
    \/ \E k \in 1..Len(problem) : EvalEnd(k)
    \/ SolveReturn

(* The rotation of a point about a principal axis, by table: a quarter turn *)
(* about x sends (x, y, z) to (x, -z, y), about y to (z, y, -x), about z to *)
(* (-y, x, z).                                                              *)

QuarterTurn(axis, pt) ==
    IF axis = 1 THEN <<pt[1], FNeg(pt[3]), pt[2]>>
    ELSE IF axis = 2 THEN <<pt[3], pt[2], FNeg(pt[1])>>
    ELSE <<FNeg(pt[2]), pt[1], pt[3]>>

RECURSIVE Turns(_, _, _)
Turns(axis, n, pt) ==
    IF n = 0 THEN pt ELSE Turns(axis, n - 1, QuarterTurn(axis, pt))

Rotated(aa, pt) ==
    IF \A n \in 1..3 : aa[n][1] = 0 THEN pt
    ELSE LET axis == CHOOSE n \in 1..3 : aa[n][1] # 0
         IN  Turns(axis, aa[axis][1] % 4, pt)

\* The point in the camera's frame: rotated by camera[0..2], plus camera[3..5].
InCameraFrame(camera, point) ==
    LET q == Rotated(<<camera[1], camera[2], camera[3]>>, point)
    IN  <<FAdd(q[1], camera[4]), FAdd(q[2], camera[5]), FAdd(q[3], camera[6])>>

\* project(camera, point), for a nonzero depth.
Project(camera, point) ==
    LET q == InCameraFrame(camera, point)
    IN  <<FDiv(FMul(camera[7], q[1]), q[3]), FDiv(FMul(camera[7], q[2]), q[3])>>

Depth(camera, point) == InCameraFrame(camera, point)[3]

(* One camera and one point drawn from bounded sets, the observation either *)
(* the exact image of the point or one of two fixed pixels.                 *)

Translations == {Vec3(0, 0, 0), Vec3(0, 0, 1), Vec3(1, -1, -2)}

Points3 == {Vec3(x, y, z) : x \in -1..1, y \in -1..1, z \in (-MaxDepth)..MaxDepth}

Pixels(aa, tv, f, X) ==
    LET camera == <<aa[1], aa[2], aa[3], tv[1], tv[2], tv[3], F(f)>>
        img    == Project(camera, X)
    IN  {<<F(ppx), F(ppy)>>, <<F(ppx + 1), F(ppy - 1)>>} \cup
        (IF Depth(camera, X) # F(0)
         THEN {<<FAdd(img[1], F(ppx)), FAdd(img[2], F(ppy))>>} ELSE {})

SingleDataSets ==
    UNION { { [ R |-> <<RotationMatrix(aa)>>, t |-> <<tv>>, K |-> <<F(f)>>,
                X |-> <<X>>, x |-> << <<px>> >> ] : px \in Pixels(aa, tv, f, X) }
            : aa \in CanonicalAngleAxis, tv \in Translations,
              f \in 1..MaxFocal, X \in Points3 }

InitFn == \E ds \in SingleDataSets : InitWith(1, 1, ds, 1)

SpecFn == InitFn /\ [][NextRound]_vars

InitPar ==
    \E nv \in 1..MaxCams, np \in 1..MaxPts :
        \E ds \in RingDataSets(nv, np) : InitWith(nv, np, ds, NumThreads)

SpecPar == InitPar /\ [][NextRound]_vars

\* The store filled by a caller's own track list.
InitStore ==
    \E nv \in 1..MaxCams, np \in 1..MaxPts :
        /\ nv * np <= MaxCams
        /\ \E ds \in RingDataSets(nv, np) : InitWith(nv, np, ds, 1)

NextStore ==
    \/ Configure
    \/ CallerFillStep
    \/ CameraStep
    \/ PointStep
    \/ BlockStep

SpecStore == InitStore /\ [][NextStore]_vars

(* ------------------------------- claims -------------------------------- *)

CamIdx(k) == ba.camera_index_.data[k]

PtIdx(k) == ba.point_index_.data[k]

\* Camera block c and point block q as read back from the store.
StoreCamera(c) == [n \in 1..7 |-> ba.parameters_.data[7 * c + n]]

StorePoint(q) == [n \in 1..3 |-> ba.parameters_.data[7 * ba.num_cameras_ + 3 * q + n]]

Started == {"solve", "solving", "done"}

\* C1: an observation whose camera index is outside [0, num_cameras) or whose
\* point index is outside [0, num_points) is rejected at construction: it is
\* never in the stored observation list and no residual block is built on a
\* handle outside the camera range or the point range.
C1_OutOfRangeRejected ==
    /\ \A n \in 1..Len(ba.camera_index_.data) :
          CamIdx(n) >= 0 /\ CamIdx(n) < ba.num_cameras_
    /\ \A n \in 1..Len(ba.point_index_.data) :
          PtIdx(n) >= 0 /\ PtIdx(n) < ba.num_points_
    /\ \A k \in 1..Len(problem) :
          /\ problem[k].camera.off >= 0
          /\ problem[k].camera.off + 7 <= 7 * ba.num_cameras_
          /\ problem[k].point.off >= 7 * ba.num_cameras_
          /\ problem[k].point.off + 3 <= 7 * ba.num_cameras_ + 3 * ba.num_points_

\* C2: with C cameras and P points, every point seen by every camera, the
\* driver registers exactly C * P residual blocks, one per observation; block
\* k's camera handle is the 7 scalars from offset 7 * camera_index[k], its
\* point handle the 3 scalars from offset 7C + 3 * point_index[k]; camera
\* handles lie in [0, 7C), point handles in [7C, 7C + 3P); each camera is
\* referenced by P blocks and each point by C (18 blocks, 6 and 3 for 3 x 6).
C2_ResidualBlocks ==
    LET C == ba.num_cameras_
        P == ba.num_points_
    IN  /\ Len(problem) <= C * P
        /\ \A k \in 1..Len(problem) :
              /\ problem[k].camera.off = 7 * CamIdx(k)
              /\ problem[k].point.off = 7 * C + 3 * PtIdx(k)
              /\ problem[k].camera.off >= 0
              /\ problem[k].camera.off + 7 <= 7 * C
              /\ problem[k].point.off >= 7 * C
              /\ problem[k].point.off + 3 <= 7 * C + 3 * P
              /\ problem[k].camera.base = ba.parameters_.base
              /\ problem[k].point.base = ba.parameters_.base
        /\ pc \in Started =>
              /\ Len(problem) = C * P
              /\ Len(ba.parameters_.data) = 7 * C + 3 * P
              /\ \A c \in 0..(C - 1) :
                    Cardinality({k \in 1..Len(problem) : problem[k].camera.off = 7 * c}) = P
              /\ \A q \in 0..(P - 1) :
                    Cardinality({k \in 1..Len(problem) : problem[k].point.off = 7 * C + 3 * q}) = C
              /\ (C = 3 /\ P = 6) => Len(problem) = 18

C2_Witness ==
    /\ pc = "solve"
    /\ ba.num_cameras_ = 3
    /\ ba.num_points_ = 6
    /\ Len(problem) = 18
    /\ problem[18].camera.off = 14
    /\ problem[18].point.off = 36

\* C10: observations[2k], observations[2k + 1] is the raw pixel of point
\* point_index[k] in camera camera_index[k] minus the principal point, block k
\* carries exactly that pair with the handles of that same camera and point,
\* and the three arrays stay aligned (lengths n, n and 2n).
C10_ObservationsAligned ==
    LET n == Len(ba.camera_index_.data)
    IN  /\ Len(ba.point_index_.data) = n
        /\ Len(ba.observations_.data) = 2 * n
        /\ pc \notin {"start", "fill"} => n = ba.num_observations_
        /\ \A k \in 0..(n - 1) :
              LET pixel == d.x[CamIdx(k + 1) + 1][PtIdx(k + 1) + 1]
              IN  /\ ba.observations_.data[2 * k + 1] = FSub(pixel[1], F(ppx))
                  /\ ba.observations_.data[2 * k + 2] = FSub(pixel[2], F(ppy))
        /\ \A k \in 0..(Len(problem) - 1) :
              /\ problem[k + 1].cost.observed_x = ba.observations_.data[2 * k + 1]
              /\ problem[k + 1].cost.observed_y = ba.observations_.data[2 * k + 2]
              /\ problem[k + 1].camera =
                    [base |-> ba.parameters_.base, off |-> 7 * CamIdx(k + 1)]
              /\ problem[k + 1].point =
                    [base |-> ba.parameters_.base,
                     off |-> 7 * ba.num_cameras_ + 3 * PtIdx(k + 1)]

C10_Witness ==
    /\ pc = "solve"
    /\ Len(problem) = 18
    /\ CamIdx(17) = 1
    /\ PtIdx(17) = 5
    /\ problem[17].cost.observed_x = FSub(d.x[2][6][1], F(ppx))
    /\ problem[17].cost.observed_x # problem[16].cost.observed_x

Evaluated(k) == k \in 1..Len(sv.st) /\ sv.st[k] = "done"

ObservedOf(k) == <<problem[k].cost.observed_x, problem[k].cost.observed_y>>

\* C3: for a nonzero depth the evaluator returns project(camera, point) minus
\* the observed location, project being: rotate by camera[0..2], add
\* camera[3..5], divide the first two coordinates by the third, multiply by
\* camera[6]; so the residual is (0, 0) exactly when the observed location is
\* the projection.
C3_ResidualIsProjectionError ==
    \A k \in 1..Len(problem) :
        Evaluated(k) =>
            LET camera == sv.rd[k].camera
                point  == sv.rd[k].point
                img    == Project(camera, point)
                obs    == ObservedOf(k)
            IN  Depth(camera, point) # F(0) =>
                    /\ sv.res[k] = <<FSub(img[1], obs[1]), FSub(img[2], obs[2])>>
                    /\ (sv.res[k] = <<F(0), F(0)>>) <=> (obs = img)

C3_Witness ==
    /\ Evaluated(1)
    /\ sv.rd[1].camera[2] = F(2)
    /\ Depth(sv.rd[1].camera, sv.rd[1].point) = F(2)
    /\ Project(sv.rd[1].camera, sv.rd[1].point) = <<F(-1), F(0)>>
    /\ sv.res[1] = <<F(0), F(0)>>

\* C4: with the zero angle-axis vector, zero translation and focal length f,
\* a point (x, y, z) with z > 0 projects to (f * x / z, f * y / z).
C4_IdentityCamera ==
    \A k \in 1..Len(problem) :
        Evaluated(k) =>
            LET camera == sv.rd[k].camera
                point  == sv.rd[k].point
                f      == camera[7]
                obs    == ObservedOf(k)
            IN  ( /\ \A n \in 1..6 : camera[n] = F(0)
                  /\ point[3][1] > 0 ) =>
                    /\ FAdd(sv.res[k][1], obs[1]) = FDiv(FMul(f, point[1]), point[3])
                    /\ FAdd(sv.res[k][2], obs[2]) = FDiv(FMul(f, point[2]), point[3])

C4_Witness ==
    /\ Evaluated(1)
    /\ \A n \in 1..6 : sv.rd[1].camera[n] = F(0)
    /\ sv.rd[1].camera[7] = F(1)
    /\ sv.rd[1].point = Vec3(1, -1, 2)
    /\ ObservedOf(1) = <<F(0), F(0)>>
    /\ sv.res[1] = <<Norm(1, 2), Norm(-1, 2)>>

IsDouble(a) == IsFinite(a) \/ IsInf(a) \/ IsNaN(a)

RECURSIVE SequentialRound(_, _, _)
SequentialRound(k, scratch, res) ==
    IF k > Len(problem) THEN res
    ELSE LET camera == ReadBlock(ba, problem[k].camera, kCameraSize, NaN)
             point  == ReadBlock(ba, problem[k].point, kPointSize, NaN)
             s2     == [scratch EXCEPT ![Scratch(k)] = operator_p(camera, point)]
             r      == operator_residuals(problem[k].cost, camera, s2[Scratch(k)])
         IN  SequentialRound(k + 1, s2, Append(res, r))

\* C9: on a fixed snapshot, whatever the order and interleaving of the
\* evaluations, each observation's residual is the one the index-order,
\* one-by-one round yields.
C9_OrderIndependent ==
    pc \in {"solving", "done"} =>
        LET ref == SequentialRound(1, [k \in 1..Len(problem) |-> NoValue], <<>>)
        IN  \A k \in 1..Len(problem) : Evaluated(k) => sv.res[k] = ref[k]

\* Block 3 has finished while block 1, started before it finished, is still
\* in flight and block 2 has not started.
C9_Witness ==
    /\ pc = "solving"
    /\ Len(problem) = 4
    /\ sv.st[1] = "p"
    /\ sv.st[2] = "idle"
    /\ sv.st[3] = "done"
    /\ sv.st[4] = "p"

\* C5: the handles alias the store: every evaluation reads exactly the store's
\* current block of its camera and of its point (never a private copy), and
\* once the solver has written v at scalar s through the handle of an
\* observation of camera (or point) idx, every later evaluation of an
\* observation of that camera (or point) reads v there, and reading block idx
\* back from the store returns v there.
C5_HandlesAliasStore ==
    /\ \A k \in 1..Len(sv.st) :
          sv.st[k] # "idle" =>
              /\ sv.rd[k].camera = StoreCamera(CamIdx(k))
              /\ sv.rd[k].point = StorePoint(PtIdx(k))
    /\ sv.last # NoWrite =>
          LET w == sv.last
          IN  /\ w.which = "camera" =>
                    /\ StoreCamera(w.idx)[w.s + 1] = w.v
                    /\ \A k \in 1..Len(sv.st) :
                          (sv.st[k] # "idle" /\ CamIdx(k) = w.idx) =>
                              sv.rd[k].camera[w.s + 1] = w.v
              /\ w.which = "point" =>
                    /\ StorePoint(w.idx)[w.s + 1] = w.v
                    /\ \A k \in 1..Len(sv.st) :
                          (sv.st[k] # "idle" /\ PtIdx(k) = w.idx) =>
                              sv.rd[k].point[w.s + 1] = w.v

\* The solver wrote the focal length of camera 1 through a handle, the round
\* after the write is complete and the solve has returned.
C5_Witness ==
    /\ pc = "done"
    /\ sv.last # NoWrite
    /\ sv.last.which = "camera"
    /\ sv.last.idx = 1
    /\ sv.last.s = 6
    /\ sv.last.v = F(3)
    /\ \A k \in 1..Len(problem) : Evaluated(k)
    /\ sv.rd[2].camera[7] = F(3)
    /\ sv.rd[1].camera[7] # F(3)

\* A step of a residual evaluation: within a round, a block's call starts or
\* ends.
EvalStep ==
    /\ pc = "solving"
    /\ pc' = "solving"
    /\ sv'.iter = sv.iter
    /\ sv'.st # sv.st

\* C6: a residual evaluation leaves the camera blocks, the point blocks and
\* the observation list unchanged, and writes nothing but its own two
\* residuals.
C6_EvaluationWritesOnlyItsResidual ==
    [][ EvalStep =>
          /\ ba' = ba
          /\ problem' = problem
          /\ d' = d
          /\ out' = out
          /\ \A k \in 1..Len(problem) :
                sv'.st[k] = sv.st[k] => sv'.res[k] = sv.res[k] ]_vars

\* The part of C6 about the store alone: the parameter blocks and the
\* observation list are unchanged by an evaluation.
EvaluationLeavesStore ==
    [][ EvalStep =>
          /\ ba' = ba
          /\ problem' = problem
          /\ \A k \in 1..Len(problem) :
                sv'.st[k] = sv.st[k] => sv'.res[k] = sv.res[k] ]_vars

\* C7: from the first registered residual block until the solve returns the
\* parameter storage is never appended to, resized or reallocated and
\* num_cameras and num_points do not change, so each handle the solver holds
\* keeps designating the same block; every append precedes the first handle.
C7_StorageStableWhileRegistered ==
    [][ Len(problem) > 0 =>
          /\ Len(ba'.parameters_.data) = Len(ba.parameters_.data)
          /\ ba'.parameters_.cap = ba.parameters_.cap
          /\ ba'.parameters_.base = ba.parameters_.base
          /\ ba'.num_cameras_ = ba.num_cameras_
          /\ ba'.num_points_ = ba.num_points_
          /\ \A k \in 1..Len(problem) :
                /\ problem'[k] = problem[k]
                /\ problem'[k].camera.base = ba'.parameters_.base
                /\ problem'[k].point.base = ba'.parameters_.base ]_vars

\* The solve has returned after an update, with all 18 handles registered.
C7_Witness ==
    /\ pc = "done"
    /\ Len(problem) = 18
    /\ sv.iter >= 1
    /\ Len(ba.parameters_.data) = 39
    /\ ba.parameters_.cap = 39

====
